---- MODULE Spec2Model ----
(***************************************************************************)
(* Model of the LIFX Cloud integration (custom_components/lifx_cloud):     *)
(*   - LifxCloudAPI, the HTTP client (api.py)                              *)
(*   - LifxLight.from_dict, the record constructor (api.py)                *)
(*   - LifxCloudCoordinator, the polling coordinator (coordinator.py)      *)
(*   - async_setup_entry / async_unload_entry (__init__.py)                *)
(*   - LifxCloudLight, the entity adapter (light.py)                       *)
(*                                                                         *)
(* SpecClient exercises one LifxCloudAPI instance on its own.              *)
(* Spec exercises one config entry: setup, refreshes, commands, unload.    *)
(***************************************************************************)
EXTENDS Integers, Sequences, FiniteSets, Bags, TLC

\* ------------------------------------------------------------------------
\* Bounds
\* ------------------------------------------------------------------------
\* number of distinct light ids the vendor account can hold
NumLights == 2
\* number of sessions one client may create before the model stops creating
MaxSessions == 3
\* number of light objects in a response body given to a directly used client
MaxBodyLights == 1
\* number of calls that may wait for the network at once before the model
\* stops starting new ones
MaxInFlight == 2

\* ------------------------------------------------------------------------
\* Values
\* ------------------------------------------------------------------------
\* LifxCloudAPI._session is None
NoSession == -1

LightIds == 1..NumLights

\* HTTP statuses fed to the client: every row of the status table and the
\* values on either side of each comparison in _request.
Statuses == {100, 200, 201, 202, 204, 206, 207, 208, 300, 304, 399,
             400, 401, 402, 403, 404, 429, 500, 503, 599}

\* A JSON object of the vendor's light array, as a Python dict: a function
\* from the keys that are present to their values.
LightDict(i, power, connected) ==
    [id |-> i, label |-> i, power |-> power, connected |-> connected]

\* the same object without its optional keys
SparseLightDict(i) == [id |-> i, label |-> i]

\* an object without the mandatory "label" key
NoLabelLightDict(i) == [id |-> i, power |-> "on"]

\* sequences of at most n elements of S
RECURSIVE SeqsUpTo(_, _)
SeqsUpTo(S, n) ==
    IF n = 0 THEN {<<>>}
    ELSE LET prev == SeqsUpTo(S, n - 1)
         IN prev \cup {Append(s, x) : s \in {p \in prev : Len(p) = n - 1}, x \in S}

Range(s) == {s[i] : i \in 1..Len(s)}

\* the vendor lists each light once: arrays of objects with distinct ids
DistinctIds(arr) ==
    \A i, j \in 1..Len(arr) : i # j => arr[i]["id"] # arr[j]["id"]

\* JSON values carried by a response body
JsonArray(items) == [type |-> "array", items |-> items]
\* the empty object {}, and an object holding the keys ks
JsonObject == [type |-> "object", items |-> <<>>]
JsonObjectOf(ks) ==
    [type |-> "object", items |-> [i \in 1..Len(ks) |-> [key |-> ks[i]]]]
NoBody == [type |-> "none", items |-> <<>>]

\* ------------------------------------------------------------------------
\* State
\* ------------------------------------------------------------------------
VARIABLES
    session,        \* LifxCloudAPI._session: NoSession, 0 (the supplied one) or 1..
    owned_session,  \* LifxCloudAPI._owned_session
    supplied,       \* whether the constructor was given a session
    sessions,       \* per session object: closed flag, close() calls by the client
    created,        \* number of sessions the client has created
    res,            \* the last client operation and what it returned or raised
    entry,          \* the config entry: not_loaded, refreshed, loaded, setup_failed
    hass_data,      \* whether hass.data[DOMAIN][entry_id] holds the coordinator
    platform,       \* whether the light platform was set up for the entry
    data,           \* coordinator.data: light id -> LifxLight
    last_update_success,  \* coordinator.last_update_success
    refresh_requested,    \* a refresh asked for with async_request_refresh is pending
    known_light_ids,      \* known_light_ids of light.async_setup_entry
    entities,       \* light id -> number of LifxCloudLight entities added for it
    ev,             \* the last step of a handler of the entry, with what it did
    view,           \* the last value read from a record, an entity or the client
    config_entries, \* unique ids of the config entries the config flow created
    inflight        \* the bag of calls waiting for the network's reply

clientVars == <<session, owned_session, supplied, sessions, created>>
entryVars == <<entry, hass_data, platform, data, last_update_success,
               refresh_requested, known_light_ids, entities, ev>>
viewVars == <<view, config_entries, inflight>>
vars == <<clientVars, res, entryVars, viewVars>>

\* nothing read yet, no config entry created yet
NoView == [op |-> "none"]

\* A call suspended at `async with session.request(...)` of _request: op is
\* the client operation or the entry's handler that made it, id and kw are
\* the handler's arguments. Nothing in the code keeps a handler from
\* starting while others wait, so the calls in flight are a bag; the
\* replies arrive in any order.
InFlight(op, id, kw) == [op |-> op, id |-> id, kw |-> kw]
NoCall == EmptyBag

ViewInit == view = NoView /\ config_entries = {} /\ inflight = NoCall

ExternalSession == 0

\* ------------------------------------------------------------------------
\* LifxCloudAPI: session handling
\* ------------------------------------------------------------------------
NewSessions == [s \in 0..MaxSessions |-> [closed |-> FALSE, closes |-> 0]]

\* __init__(token, session)
ApiInit(withSession) ==
    /\ supplied = withSession
    /\ session = IF withSession THEN ExternalSession ELSE NoSession
    /\ owned_session = ~withSession
    /\ sessions = NewSessions
    /\ created = 0

\* NeedsSession that replaces the session on every request
NeedsSession_Always(s) == TRUE

\* the condition under which _get_session creates a session, s being
\* self._session
NeedsSession(s) == s = NoSession \/ sessions[s].closed

\* _get_session of a client whose fields are s and o: the session the next
\* request runs on
get_session_of(s, o) ==
    /\ NeedsSession(s) => created < MaxSessions
    /\ IF NeedsSession(s)
       THEN /\ session' = created + 1
            /\ created' = created + 1
            /\ owned_session' = TRUE
       ELSE /\ session' = s
            /\ created' = created
            /\ owned_session' = o

\* _get_session of the current client
get_session == get_session_of(session, owned_session)

\* CloseGuard that does not consult the ownership flag
CloseGuard_IgnoreOwner == session # NoSession /\ ~sessions[session].closed

\* the guard of close()
CloseGuard == owned_session /\ session # NoSession /\ ~sessions[session].closed

\* close(): closes the session when the guard holds
close ==
    /\ sessions' = IF CloseGuard
                   THEN [sessions EXCEPT ![session] =
                            [closed |-> TRUE, closes |-> @.closes + 1]]
                   ELSE sessions
    /\ UNCHANGED <<session, owned_session, created>>

\* ------------------------------------------------------------------------
\* LifxCloudAPI._request: what one HTTP exchange returns or raises
\* ------------------------------------------------------------------------
\* What the network hands to _request: a response (status and body), a
\* timeout, or a transport failure (aiohttp.ClientError).
Response(status, body) == [net |-> "response", status |-> status, body |-> body]
Timeout == [net |-> "timeout", status |-> 0, body |-> NoBody]
TransportError == [net |-> "client_error", status |-> 0, body |-> NoBody]

\* Outcomes of a call. value is what was returned (NoBody for Python's None);
\* parsed tells whether response.json() was awaited; text is the response
\* text quoted by the generic error.
Return(value, parsed) ==
    [t |-> "return", exc |-> "", msg |-> "", status |-> 0,
     value |-> value, text |-> NoBody, parsed |-> parsed]
Raise(exc, msg, status, text) ==
    [t |-> "raise", exc |-> exc, msg |-> msg, status |-> status,
     value |-> NoBody, text |-> text, parsed |-> FALSE]

\* the three error kinds of api.py; the last two derive from the first
LifxCloudAPIError == "LifxCloudAPIError"
LifxCloudAuthError == "LifxCloudAuthError"
LifxCloudConnectionError == "LifxCloudConnectionError"

\* isinstance(exc, LifxCloudAPIError)
IsLifxCloudAPIError(exc) ==
    exc \in {LifxCloudAPIError, LifxCloudAuthError, LifxCloudConnectionError}

\* StatusOutcome with the generic >= 400 check made before the 401/403 checks
StatusOutcome_GenericFirst(status, body) ==
    IF status >= 400 THEN Raise(LifxCloudAPIError, "API error", status, body)
    ELSE IF status = 207 THEN Return(body, TRUE)
    ELSE IF status = 202 THEN Return(NoBody, FALSE)
    ELSE Return(body, TRUE)

\* the status checks of _request, in the order the code makes them
StatusOutcome(status, body) ==
    IF status = 401 THEN Raise(LifxCloudAuthError, "Invalid access token", 0, NoBody)
    ELSE IF status = 403 THEN Raise(LifxCloudAuthError, "Access forbidden", 0, NoBody)
    ELSE IF status = 207 THEN Return(body, TRUE)
    ELSE IF status >= 400 THEN Raise(LifxCloudAPIError, "API error", status, body)
    ELSE IF status = 202 THEN Return(NoBody, FALSE)
    ELSE Return(body, TRUE)

\* _request, after the session was obtained
request(resp) ==
    CASE resp.net = "timeout" ->
            Raise(LifxCloudConnectionError, "Request timed out", 0, NoBody)
      [] resp.net = "client_error" ->
            Raise(LifxCloudConnectionError, "Connection error", 0, NoBody)
      [] OTHER -> StatusOutcome(resp.status, resp.body)

\* ------------------------------------------------------------------------
\* LifxLight.from_dict and LifxCloudAPI.list_lights / validate_token
\* ------------------------------------------------------------------------
\* dict.get(key, default)
Get(d, key, default) == IF key \in DOMAIN d THEN d[key] ELSE default

\* a Python dict without keys
EmptyDict == [k \in {} |-> 0]

\* non-integer numbers, as fractions; NoNumber is Python's None
Frac(n, d) == [num |-> n, den |-> d]
NoNumber == Frac(0, 0)

\* MissingKey that also reads "product" with data[...]
MissingKey_ProductRequired(d) ==
    IF "id" \notin DOMAIN d THEN "id"
    ELSE IF "label" \notin DOMAIN d THEN "label"
    ELSE IF "product" \notin DOMAIN d THEN "product"
    ELSE ""

\* the keys from_dict reads with data[...]: a missing one raises KeyError
MissingKey(d) ==
    IF "id" \notin DOMAIN d THEN "id"
    ELSE IF "label" \notin DOMAIN d THEN "label"
    ELSE ""

\* LifxLight.from_dict(data), for data holding the mandatory keys
from_dict(d) ==
    [id |-> d["id"],
     uuid |-> Get(d, "uuid", d["id"]),
     label |-> d["label"],
     connected |-> Get(d, "connected", FALSE),
     power |-> Get(d, "power", "off"),
     brightness |-> Get(d, "brightness", Frac(0, 1)),
     color |-> Get(d, "color", EmptyDict),
     group |-> Get(d, "group", EmptyDict),
     location |-> Get(d, "location", EmptyDict),
     product |-> Get(d, "product", EmptyDict),
     last_seen |-> Get(d, "last_seen", ""),
     seconds_since_seen |-> Get(d, "seconds_since_seen", 0)]

\* LifxLight.from_dict(data): the record, or the KeyError of a missing key
from_dict_outcome(d) ==
    IF MissingKey(d) # "" THEN Raise("KeyError", MissingKey(d), 0, NoBody)
    ELSE Return(from_dict(d), FALSE)

\* the properties of LifxLight
hue(light) == Get(light.color, "hue", 0)
saturation(light) == Get(light.color, "saturation", Frac(0, 1))
kelvin(light) == Get(light.color, "kelvin", 3500)
capabilities(light) == Get(light.product, "capabilities", EmptyDict)
supports_color(light) == Get(capabilities(light), "has_color", FALSE)
supports_temperature(light) == Get(capabilities(light), "has_variable_color_temp", FALSE)
min_kelvin(light) == Get(capabilities(light), "min_kelvin", 2500)
max_kelvin(light) == Get(capabilities(light), "max_kelvin", 9000)

PyList(items) == [type |-> "list", items |-> items]
PyTrue == [type |-> "true", items |-> <<>>]
PyFalse == [type |-> "false", items |-> <<>>]

\* [LifxLight.from_dict(light) for light in data]
RECURSIVE FromDictAll(_)
FromDictAll(items) ==
    IF items = <<>> THEN <<>>
    ELSE <<from_dict(Head(items))>> \o FromDictAll(Tail(items))

FirstBad(items) ==
    LET bad == {i \in 1..Len(items) : MissingKey(items[i]) # ""}
    IN IF bad = {} THEN 0 ELSE CHOOSE i \in bad : \A j \in bad : i <= j

\* list_lights, given what _request returned or raised. The comprehension
\* iterates the parsed body: None is not iterable, an object yields its keys
\* (none for {}, strings that from_dict cannot index otherwise), an array
\* yields its objects.
list_lights(resp) ==
    LET r == request(resp)
    IN IF r.t = "raise" THEN r
       ELSE IF r.value.type = "none"
            THEN Raise("TypeError", "not iterable", 0, NoBody)
       ELSE IF r.value.type = "object"
            THEN IF r.value.items = <<>>
                 THEN Return(PyList(<<>>), TRUE)
                 ELSE Raise("TypeError", "not a list of objects", 0, NoBody)
       ELSE IF FirstBad(r.value.items) # 0
            THEN Raise("KeyError", MissingKey(r.value.items[FirstBad(r.value.items)]),
                       0, NoBody)
       ELSE Return(PyList(FromDictAll(r.value.items)), TRUE)

\* validate_token catching the base error class instead of the auth error
validate_token_CatchBase(resp) ==
    LET r == list_lights(resp)
    IN IF r.t = "return" THEN Return(PyTrue, r.parsed)
       ELSE IF IsLifxCloudAPIError(r.exc) THEN Return(PyFalse, FALSE)
       ELSE r

\* validate_token
validate_token(resp) ==
    LET r == list_lights(resp)
    IN IF r.t = "return" THEN Return(PyTrue, r.parsed)
       ELSE IF r.exc = LifxCloudAuthError THEN Return(PyFalse, FALSE)
       ELSE r

\* ------------------------------------------------------------------------
\* Inputs of the client specification
\* ------------------------------------------------------------------------
\* the light objects fed to a directly used client
ClientDicts ==
    UNION {{LightDict(i, "on", TRUE), SparseLightDict(i), NoLabelLightDict(i)} :
              i \in 1..MaxBodyLights}

\* Every response carries a JSON body, except that a 202 may carry none.
\* _request is fed every status; its outcome does not look into the body.
RequestResponses ==
    {Response(s, b) : s \in Statuses, b \in {JsonObject, JsonArray(<<>>)}}
        \cup {Response(202, NoBody), Timeout, TransportError}

\* list_lights and validate_token are fed every body under the statuses
\* _request returns on, and one body under a status of each row of the
\* status table that raises before the body is looked into.
ListResponses ==
    {Response(s, b) : s \in {200, 202, 207},
                      b \in {JsonObject, JsonObjectOf(<<"results">>)}
                            \cup {JsonArray(a) :
                                     a \in {x \in SeqsUpTo(ClientDicts, MaxBodyLights) :
                                               DistinctIds(x)}}}
        \cup {Response(s, JsonObject) : s \in {401, 403, 500}}
        \cup {Response(202, NoBody), Timeout, TransportError}

NoResponse == [net |-> "none", status |-> 0, body |-> NoBody]

Res(op, resp, out, didClose) ==
    [op |-> op, resp |-> resp, out |-> out, didClose |-> didClose]

\* ------------------------------------------------------------------------
\* LifxCloudCoordinator
\* ------------------------------------------------------------------------
UpdateFailed == "UpdateFailed"

\* _async_update_data with the except clause narrowed to connection errors
async_update_data_ConnectionOnly(listed) ==
    IF listed.t = "return" THEN listed
    ELSE IF listed.exc = LifxCloudConnectionError
         THEN Raise(UpdateFailed, listed.msg, listed.status, listed.text)
    ELSE listed

\* _async_update_data, given what list_lights returned or raised: the list
\* goes on to the dict comprehension, a LifxCloudAPIError becomes
\* UpdateFailed, anything else escapes as it is
async_update_data(listed) ==
    IF listed.t = "return" THEN listed
    ELSE IF IsLifxCloudAPIError(listed.exc)
         THEN Raise(UpdateFailed, listed.msg, listed.status, listed.text)
    ELSE listed

\* a dict comprehension that keeps the entries of the dict it replaces
LightsById_Merge(lights, old) ==
    [i \in DOMAIN old \cup {lights[k].id : k \in 1..Len(lights)} |->
        IF \E k \in 1..Len(lights) : lights[k].id = i
        THEN LET ks == {k \in 1..Len(lights) : lights[k].id = i}
             IN lights[CHOOSE k \in ks : \A j \in ks : j <= k]
        ELSE old[i]]

\* {light.id: light for light in lights}: a later light with the same id
\* replaces an earlier one; old, the dict being replaced, is not consulted
LightsById(lights, old) ==
    [i \in {lights[k].id : k \in 1..Len(lights)} |->
        LET ks == {k \in 1..Len(lights) : lights[k].id = i}
        IN lights[CHOOSE k \in ks : \A j \in ks : j <= k]]

\* the empty dict; also stands for coordinator.data before the first refresh
NoData == [i \in {} |-> 0]

\* ------------------------------------------------------------------------
\* Inputs of the entry specification
\* ------------------------------------------------------------------------
\* the light objects the vendor reports for an id

\* arrays listing each light at most once, in ascending id order
EntryArrays ==
    {a \in SeqsUpTo(UNION {{LightDict(i, "on", TRUE), SparseLightDict(i)} :
                               i \in LightIds}, NumLights) :
        \A i, j \in 1..Len(a) : i < j => a[i]["id"] < a[j]["id"]}

\* replies to the coordinator's GET: every array under 200, the empty
\* object under 200, and one reply of each failing kind
RefreshResponses ==
    {Response(200, JsonArray(a)) : a \in EntryArrays}
        \cup {Response(s, JsonObject) : s \in {200, 401, 500}}
        \cup {Response(202, NoBody), Timeout}

\* replies to a command's PUT or POST
CommandResponses ==
    {Response(s, JsonObject) : s \in {207, 401, 500}}
        \cup {Response(202, NoBody), Timeout}

\* the replies to commands fed to the entry specification
SomeCommandResponses == {Response(207, JsonObject), Timeout}

\* ------------------------------------------------------------------------
\* The record of the last handler
\* ------------------------------------------------------------------------
\* a service call without keyword arguments
NoKwargs == [k \in {} |-> 0]

Event(h, id, kw, resp, out, notified, beforeIds, calls) ==
    [h |-> h, id |-> id, kw |-> kw, resp |-> resp, out |-> out,
     notified |-> notified, beforeIds |-> beforeIds, calls |-> calls,
     knownBefore |-> {}]

\* the record of a refresh: beforeIds are the ids of coordinator.data and
\* knownBefore the known_light_ids when the refresh started
RefreshEvent(h, resp, out, notified, beforeIds, knownBefore) ==
    [Event(h, 0, NoKwargs, resp, out, notified, beforeIds, <<>>)
        EXCEPT !.knownBefore = knownBefore]

NoEvent == Event("init", 0, NoKwargs, NoResponse, Return(NoBody, FALSE), FALSE, {}, <<>>)

\* the entry before async_setup_entry
EntryInit ==
    /\ entry = "not_loaded"
    /\ hass_data = FALSE
    /\ platform = FALSE
    /\ data = NoData
    /\ last_update_success = TRUE
    /\ refresh_requested = FALSE
    /\ known_light_ids = {}
    /\ entities = [i \in LightIds |-> 0]
    /\ ev = NoEvent

\* ------------------------------------------------------------------------
\* light.py: _async_add_new_lights
\* ------------------------------------------------------------------------
\* the ids _async_add_new_lights adds entities for, without the known check
NewLightIds_NoKnownCheck(d, known) == DOMAIN d

\* the ids _async_add_new_lights adds entities for
NewLightIds(d, known) == {i \in DOMAIN d : i \notin known}

\* _async_add_new_lights over coordinator.data d
AddNewLights(d) ==
    /\ known_light_ids' = known_light_ids \cup NewLightIds(d, known_light_ids)
    /\ entities' = [i \in LightIds |->
                      IF i \in NewLightIds(d, known_light_ids)
                      THEN entities[i] + 1 ELSE entities[i]]

\* ------------------------------------------------------------------------
\* light.py: LifxCloudLight.async_turn_on / async_turn_off
\* ------------------------------------------------------------------------

\* color strings passed to the client
NoColor == [fmt |-> "None", a |-> 0, b |-> NoNumber]
White == [fmt |-> "white", a |-> 0, b |-> NoNumber]
HueSaturation(h, sat) == [fmt |-> "hue:{} saturation:{}", a |-> h, b |-> sat]
Kelvin(k) == [fmt |-> "kelvin:{}", a |-> k, b |-> NoNumber]

\* one call made by a handler
Call(fn, id, power, color, brightness, duration, period, cycles) ==
    [fn |-> fn, selector |-> [fmt |-> "id:{}", id |-> id], power |-> power,
     color |-> color, brightness |-> brightness, duration |-> duration,
     period |-> period, cycles |-> cycles]

\* await self.coordinator.async_request_refresh()
RequestRefresh ==
    [fn |-> "async_request_refresh", selector |-> [fmt |-> "", id |-> 0],
     power |-> "", color |-> NoColor, brightness |-> NoNumber,
     duration |-> NoNumber, period |-> NoNumber, cycles |-> NoNumber]

\* the keyword arguments of a turn-on or turn-off service call
KwKeys == {"effect", "hs_color", "color_temp_kelvin", "brightness", "transition"}

KwValue(k, effect) ==
    CASE k = "effect" -> effect
      [] k = "hs_color" -> <<120, 50>>
      [] k = "color_temp_kelvin" -> 3500
      [] k = "brightness" -> 128
      [] OTHER -> 2

AllKwargs == {[k \in S |-> KwValue(k, e)] : S \in SUBSET KwKeys, e \in {"breathe", "pulse", "colorloop"}}

\* the service calls fed to the entry specification
SomeKwargs == {NoKwargs, [effect |-> "breathe"]}

\* TurnOnSetState with the kelvin branch tested before the HS branch
TurnOnSetState_KelvinFirst(id, kw) ==
    Call("set_state", id, "on",
         IF "color_temp_kelvin" \in DOMAIN kw
         THEN Kelvin(kw["color_temp_kelvin"])
         ELSE IF "hs_color" \in DOMAIN kw
              THEN HueSaturation(kw["hs_color"][1], Frac(kw["hs_color"][2], 100))
         ELSE NoColor,
         IF "brightness" \in DOMAIN kw THEN Frac(kw["brightness"], 255) ELSE NoNumber,
         IF "transition" \in DOMAIN kw THEN Frac(kw["transition"], 1) ELSE Frac(1, 1),
         NoNumber, NoNumber)

\* the set_state call of the non-effect path of async_turn_on
TurnOnSetState(id, kw) ==
    Call("set_state", id, "on",
         IF "hs_color" \in DOMAIN kw
         THEN HueSaturation(kw["hs_color"][1], Frac(kw["hs_color"][2], 100))
         ELSE IF "color_temp_kelvin" \in DOMAIN kw
              THEN Kelvin(kw["color_temp_kelvin"])
         ELSE NoColor,
         IF "brightness" \in DOMAIN kw THEN Frac(kw["brightness"], 255) ELSE NoNumber,
         IF "transition" \in DOMAIN kw THEN Frac(kw["transition"], 1) ELSE Frac(1, 1),
         NoNumber, NoNumber)

BreatheCall(id) ==
    Call("breathe_effect", id, "", White, NoNumber, NoNumber, Frac(2, 1), Frac(3, 1))

PulseCall(id) ==
    Call("pulse_effect", id, "", White, NoNumber, NoNumber, Frac(1, 1), Frac(3, 1))

\* the tail of a handler after its set_state call, with the refresh asked
\* for whether or not the call returned
AfterSetState_Always(out) == <<RequestRefresh>>

\* the tail of a handler after its set_state call: the refresh is asked for
\* when the call returned, and not reached when it raised
AfterSetState(out) == IF out.t = "return" THEN <<RequestRefresh>> ELSE <<>>

\* async_turn_on whose effect branches fall through to the set_state path
turn_on_EffectFallsThrough(id, kw, present, out) ==
    IF ~present THEN <<>>
    ELSE IF "effect" \in DOMAIN kw /\ kw["effect"] = "breathe"
         THEN <<BreatheCall(id), TurnOnSetState(id, kw)>> \o AfterSetState(out)
    ELSE IF "effect" \in DOMAIN kw /\ kw["effect"] = "pulse"
         THEN <<PulseCall(id), TurnOnSetState(id, kw)>> \o AfterSetState(out)
    ELSE <<TurnOnSetState(id, kw)>> \o AfterSetState(out)

\* async_turn_on: the calls it makes, in order; present tells whether the
\* coordinator holds a record for the light, out is what the client call
\* returned or raised
turn_on(id, kw, present, out) ==
    IF ~present THEN <<>>
    ELSE IF "effect" \in DOMAIN kw /\ kw["effect"] = "breathe"
         THEN <<BreatheCall(id)>>
    ELSE IF "effect" \in DOMAIN kw /\ kw["effect"] = "pulse"
         THEN <<PulseCall(id)>>
    ELSE <<TurnOnSetState(id, kw)>> \o AfterSetState(out)

\* async_turn_off: the calls it makes, in order
turn_off(id, kw, out) ==
    <<Call("set_state", id, "off", NoColor, NoNumber,
           IF "transition" \in DOMAIN kw THEN Frac(kw["transition"], 1) ELSE Frac(1, 1),
           NoNumber, NoNumber)>>
        \o AfterSetState(out)

ClientCalls == {"set_state", "breathe_effect", "pulse_effect"}

\* the record of a handler that has sent its request and waits for the reply
Sent(h, id, kw) ==
    Event(h, id, kw, NoResponse, Return(NoBody, FALSE), FALSE, {}, <<>>)

\* whether the host takes an async_request_refresh: the coordinator of an
\* unloaded entry is shut down and drops it
RefreshAccepted == entry = "loaded"

\* refresh_requested after a handler that made the calls
AfterCalls(calls) ==
    IF RefreshAccepted
    THEN refresh_requested \/ RequestRefresh \in Range(calls)
    ELSE refresh_requested

\* async_turn_on of the entity of light id, up to the await on the network;
\* without a record for the light it returns at once
TurnOn(kwargs) ==
    \E id \in LightIds, kw \in kwargs :
        /\ entry = "loaded"
        /\ entities[id] >= 1
        /\ IF id \notin DOMAIN data
           THEN /\ UNCHANGED <<session, owned_session, created, inflight>>
                /\ ev' = Event("turn_on", id, kw, NoResponse, Return(NoBody, FALSE),
                               FALSE, {}, <<>>)
           ELSE /\ BagCardinality(inflight) < MaxInFlight
                /\ get_session
                /\ inflight' = inflight (+) SetToBag({InFlight("turn_on", id, kw)})
                /\ ev' = Sent("turn_on_sent", id, kw)
        /\ UNCHANGED <<sessions, supplied, res, view, config_entries, entry, hass_data,
                       platform, data, last_update_success, refresh_requested,
                       known_light_ids, entities>>

\* the network answers the client call of a waiting async_turn_on, which
\* runs to its end
TurnOnDone(resps) ==
    \E c \in BagToSet(inflight), resp \in resps :
        LET out == request(resp)
            calls == turn_on(c.id, c.kw, TRUE, out)
        IN /\ c.op = "turn_on"
           /\ refresh_requested' = AfterCalls(calls)
           /\ ev' = Event("turn_on", c.id, c.kw, resp, out, FALSE, {}, calls)
           /\ inflight' = inflight (-) SetToBag({c})
           /\ UNCHANGED <<clientVars, res, view, config_entries, entry, hass_data,
                          platform, data, last_update_success, known_light_ids,
                          entities>>

\* async_turn_off of the entity of light id, up to the await on the network
TurnOff(kwargs) ==
    \E id \in LightIds, kw \in {k \in kwargs : DOMAIN k \subseteq {"transition"}} :
        /\ entry = "loaded"
        /\ entities[id] >= 1
        /\ BagCardinality(inflight) < MaxInFlight
        /\ get_session
        /\ inflight' = inflight (+) SetToBag({InFlight("turn_off", id, kw)})
        /\ ev' = Sent("turn_off_sent", id, kw)
        /\ UNCHANGED <<sessions, supplied, res, view, config_entries, entry, hass_data,
                       platform, data, last_update_success, refresh_requested,
                       known_light_ids, entities>>

\* the network answers the set_state of a waiting async_turn_off, which
\* runs to its end
TurnOffDone(resps) ==
    \E c \in BagToSet(inflight), resp \in resps :
        LET out == request(resp)
            calls == turn_off(c.id, c.kw, out)
        IN /\ c.op = "turn_off"
           /\ refresh_requested' = AfterCalls(calls)
           /\ ev' = Event("turn_off", c.id, c.kw, resp, out, FALSE, {}, calls)
           /\ inflight' = inflight (-) SetToBag({c})
           /\ UNCHANGED <<clientVars, res, view, config_entries, entry, hass_data,
                          platform, data, last_update_success, known_light_ids,
                          entities>>

\* ------------------------------------------------------------------------
\* The coordinator's refresh, as driven by the host's DataUpdateCoordinator
\* ------------------------------------------------------------------------
\* what the base class stores after _async_update_data: the new dict on
\* success, the previous one otherwise
RefreshedData(upd, old) ==
    IF upd.t = "return" THEN LightsById(upd.value.items, old) ELSE old

\* what the base class records in last_update_success after the update
LastUpdateSuccess(upd) == upd.t = "return"

\* whether the base class calls the listeners after the update: with the new
\* data on success, with the failure otherwise
ListenersNotified(upd) == upd.t \in {"return", "raise"}

\* a refresh of a loaded entry up to the await on the network in
\* _async_update_data: list_lights has sent its request
Refresh(h) ==
    /\ entry = "loaded"
    /\ BagCardinality(inflight) < MaxInFlight
    /\ get_session
    /\ refresh_requested' = FALSE
    /\ inflight' = inflight (+) SetToBag({InFlight(h, 0, <<>>)})
    /\ ev' = Sent("refresh_sent", 0, NoKwargs)
    /\ UNCHANGED <<sessions, supplied, res, view, config_entries, entry, hass_data,
                   platform, data, last_update_success, known_light_ids, entities>>

\* the network answers a waiting refresh: _async_update_data ends, the
\* base class does its bookkeeping and calls the listeners; the platform's
\* _async_add_new_lights is one of them until the entry is unloaded
RefreshDone ==
    \E c \in BagToSet(inflight), resp \in RefreshResponses :
        LET upd == async_update_data(list_lights(resp))
        IN /\ c.op \in {"timer_refresh", "requested_refresh"}
           /\ data' = RefreshedData(upd, data)
           /\ last_update_success' = LastUpdateSuccess(upd)
           /\ IF ListenersNotified(upd) /\ platform
              THEN AddNewLights(data')
              ELSE UNCHANGED <<known_light_ids, entities>>
           /\ ev' = RefreshEvent(c.op, resp, upd, ListenersNotified(upd),
                                 DOMAIN data, known_light_ids)
           /\ inflight' = inflight (-) SetToBag({c})
           /\ UNCHANGED <<clientVars, res, view, config_entries, entry, hass_data,
                          platform, refresh_requested>>

\* the update interval elapsed
TimerRefresh == Refresh("timer_refresh")

\* the refresh asked for by a command runs
RequestedRefresh == refresh_requested /\ Refresh("requested_refresh")

\* ------------------------------------------------------------------------
\* __init__.py: async_setup_entry / async_unload_entry
\* ------------------------------------------------------------------------
\* async_config_entry_first_refresh raises when the first update failed
FirstRefreshRaises(upd) == upd.t = "raise"

\* A call left waiting by a client whose coordinator is no longer the
\* entry's: the handler that made it ends on the objects of the earlier
\* setup, so its reply changes nothing of the entry.
Orphan == InFlight("orphan", 0, <<>>)

\* lines 22-25 of async_setup_entry up to the await on the network, storing
\* the coordinator before the first refresh
SetupFirstRefresh_StoreFirst ==
    /\ entry \in {"not_loaded", "setup_failed"}
    /\ BagCardinality(inflight) < MaxInFlight
    /\ get_session_of(NoSession, TRUE)
    /\ data' = NoData
    /\ last_update_success' = TRUE
    /\ entry' = "setting_up"
    /\ hass_data' = TRUE
    /\ inflight' = (IF inflight = NoCall THEN NoCall
                    ELSE [c \in {Orphan} |-> BagCardinality(inflight)])
                   (+) SetToBag({InFlight("setup_refresh", 0, <<>>)})
    /\ ev' = Sent("setup_sent", 0, NoKwargs)
    /\ UNCHANGED <<sessions, supplied, res, view, config_entries, platform,
                   refresh_requested, known_light_ids, entities>>

\* lines 22-25 of async_setup_entry up to the await on the network: a new
\* client and a new coordinator, whose first refresh has created the
\* session and sent its request; the calls of the earlier client that still
\* wait are orphans from here on
SetupFirstRefresh ==
    /\ entry \in {"not_loaded", "setup_failed"}
    /\ BagCardinality(inflight) < MaxInFlight
    /\ get_session_of(NoSession, TRUE)
    /\ data' = NoData
    /\ last_update_success' = TRUE
    /\ entry' = "setting_up"
    /\ inflight' = (IF inflight = NoCall THEN NoCall
                    ELSE [c \in {Orphan} |-> BagCardinality(inflight)])
                   (+) SetToBag({InFlight("setup_refresh", 0, <<>>)})
    /\ ev' = Sent("setup_sent", 0, NoKwargs)
    /\ UNCHANGED <<sessions, supplied, res, view, config_entries, hass_data, platform,
                   refresh_requested, known_light_ids, entities>>

\* the network answers the first refresh: async_config_entry_first_refresh
\* returns, or raises when the update failed and async_setup_entry ends there
SetupFirstRefreshDone ==
    \E resp \in RefreshResponses :
        LET upd == async_update_data(list_lights(resp))
        IN /\ entry = "setting_up"
           /\ BagIn(InFlight("setup_refresh", 0, <<>>), inflight)
           /\ data' = RefreshedData(upd, data)
           /\ last_update_success' = LastUpdateSuccess(upd)
           /\ entry' = IF FirstRefreshRaises(upd) THEN "setup_failed" ELSE "refreshed"
           /\ ev' = Event("setup_refresh", 0, NoKwargs, resp, upd, FALSE, {}, <<>>)
           /\ inflight' = inflight (-) SetToBag({InFlight("setup_refresh", 0, <<>>)})
           /\ UNCHANGED <<clientVars, res, view, config_entries, hass_data, platform,
                          refresh_requested, known_light_ids, entities>>

\* the network answers an orphan
OrphanDone ==
    /\ BagIn(Orphan, inflight)
    /\ inflight' = inflight (-) SetToBag({Orphan})
    /\ UNCHANGED <<clientVars, res, entryVars, view, config_entries>>

\* lines 27-32 of async_setup_entry: the coordinator is stored and the light
\* platform set up (light.async_setup_entry adds the initial lights)
SetupStoreAndForward ==
    /\ entry = "refreshed"
    /\ hass_data' = TRUE
    /\ platform' = TRUE
    /\ known_light_ids' = NewLightIds(data, {})
    /\ entities' = [i \in LightIds |-> IF i \in NewLightIds(data, {}) THEN 1 ELSE 0]
    /\ entry' = "loaded"
    /\ ev' = Event("setup_store", 0, NoKwargs, NoResponse, Return(NoBody, FALSE),
                   FALSE, {}, <<>>)
    /\ UNCHANGED <<clientVars, res, viewVars, data, last_update_success, refresh_requested>>

\* async_unload_entry; unload_ok is the result of async_unload_platforms
Unload ==
    \E unload_ok \in BOOLEAN :
        /\ entry = "loaded"
        /\ IF unload_ok
           THEN /\ close
                /\ hass_data' = FALSE
                /\ platform' = FALSE
                /\ entry' = "not_loaded"
                /\ known_light_ids' = {}
                /\ entities' = [i \in LightIds |-> 0]
                /\ refresh_requested' = FALSE
           ELSE UNCHANGED <<clientVars, hass_data, platform, entry, known_light_ids,
                            entities, refresh_requested>>
        /\ ev' = Event(IF unload_ok THEN "unload" ELSE "unload_failed", 0, NoKwargs,
                       NoResponse, Return(NoBody, FALSE), FALSE, {}, <<>>)
        /\ UNCHANGED <<supplied, res, viewVars, data, last_update_success>>

\* ------------------------------------------------------------------------
\* SpecClient: one LifxCloudAPI instance used directly
\* ------------------------------------------------------------------------
InitClient ==
    /\ ViewInit
    /\ \E withSession \in BOOLEAN : ApiInit(withSession)
    /\ res = Res("init", NoResponse, Return(NoBody, FALSE), FALSE)
    /\ EntryInit

\* api._request(...) up to the await on the network: the session is
\* obtained and the request sent
ClientRequest ==
    /\ BagCardinality(inflight) < MaxInFlight
    /\ get_session
    /\ inflight' = inflight (+) SetToBag({InFlight("request", 0, <<>>)})
    /\ UNCHANGED <<sessions, supplied, res, entryVars, view, config_entries>>

\* the network answers a waiting _request
ClientRequestDone ==
    \E resp \in RequestResponses :
        /\ BagIn(InFlight("request", 0, <<>>), inflight)
        /\ res' = Res("request", resp, request(resp), FALSE)
        /\ inflight' = inflight (-) SetToBag({InFlight("request", 0, <<>>)})
        /\ UNCHANGED <<clientVars, entryVars, view, config_entries>>

\* api.list_lights() up to the await on the network
ClientListLights ==
    /\ BagCardinality(inflight) < MaxInFlight
    /\ get_session
    /\ inflight' = inflight (+) SetToBag({InFlight("list_lights", 0, <<>>)})
    /\ UNCHANGED <<sessions, supplied, res, entryVars, view, config_entries>>

\* the network answers a waiting list_lights
ClientListLightsDone ==
    \E resp \in ListResponses :
        /\ BagIn(InFlight("list_lights", 0, <<>>), inflight)
        /\ res' = Res("list_lights", resp, list_lights(resp), FALSE)
        /\ inflight' = inflight (-) SetToBag({InFlight("list_lights", 0, <<>>)})
        /\ UNCHANGED <<clientVars, entryVars, view, config_entries>>

\* api.validate_token() up to the await on the network
ClientValidateToken ==
    /\ BagCardinality(inflight) < MaxInFlight
    /\ get_session
    /\ inflight' = inflight (+) SetToBag({InFlight("validate_token", 0, <<>>)})
    /\ UNCHANGED <<sessions, supplied, res, entryVars, view, config_entries>>

\* the network answers a waiting validate_token
ClientValidateTokenDone ==
    \E resp \in ListResponses :
        /\ BagIn(InFlight("validate_token", 0, <<>>), inflight)
        /\ res' = Res("validate_token", resp, validate_token(resp), FALSE)
        /\ inflight' = inflight (-) SetToBag({InFlight("validate_token", 0, <<>>)})
        /\ UNCHANGED <<clientVars, entryVars, view, config_entries>>

\* await api.close()
ClientClose ==
    /\ close
    /\ res' = Res("close", NoResponse, Return(NoBody, FALSE), CloseGuard)
    /\ UNCHANGED <<supplied, entryVars, viewVars>>

\* the owner of the supplied session closes it
OwnerCloseSession ==
    /\ supplied
    /\ ~sessions[ExternalSession].closed
    /\ sessions' = [sessions EXCEPT ![ExternalSession].closed = TRUE]
    /\ res' = Res("owner_close", NoResponse, Return(NoBody, FALSE), FALSE)
    /\ UNCHANGED <<session, owned_session, created, supplied, entryVars, viewVars>>

NextClient ==
    \/ ClientRequest
    \/ ClientRequestDone
    \/ ClientListLights
    \/ ClientListLightsDone
    \/ ClientValidateToken
    \/ ClientValidateTokenDone
    \/ ClientClose
    \/ OwnerCloseSession

SpecClient == InitClient /\ [][NextClient]_vars

\* ------------------------------------------------------------------------
\* Spec: one config entry
\* ------------------------------------------------------------------------
IdleRes == Res("init", NoResponse, Return(NoBody, FALSE), FALSE)

Init ==
    /\ ViewInit
    /\ ApiInit(FALSE)
    /\ res = IdleRes
    /\ EntryInit

Next ==
    \/ SetupFirstRefresh
    \/ SetupFirstRefreshDone
    \/ SetupStoreAndForward
    \/ OrphanDone
    \/ TimerRefresh
    \/ RequestedRefresh
    \/ RefreshDone
    \/ TurnOn(SomeKwargs)
    \/ TurnOnDone(SomeCommandResponses)
    \/ TurnOff(SomeKwargs)
    \/ TurnOffDone(SomeCommandResponses)
    \/ Unload

Spec == Init /\ [][Next]_vars

\* ------------------------------------------------------------------------
\* SpecLight: the entities of a loaded entry under every service call
\* ------------------------------------------------------------------------
\* a loaded entry: every light has an entity, the coordinator holds a record
\* for some of them, and timer refreshes wait for the network in all but
\* one of the places in flight, so that the commands' calls join them one
\* at a time
InitLight ==
    /\ view = NoView
    /\ config_entries = {}
    /\ inflight = [c \in {InFlight("timer_refresh", 0, <<>>)} |-> MaxInFlight - 1]
    /\ supplied = FALSE
    /\ session = 1
    /\ owned_session = TRUE
    /\ sessions = NewSessions
    /\ created = 1
    /\ res = IdleRes
    /\ entry = "loaded"
    /\ hass_data = TRUE
    /\ platform = TRUE
    /\ \E S \in SUBSET LightIds :
          data = [i \in S |-> from_dict(LightDict(i, "on", TRUE))]
    /\ last_update_success = TRUE
    /\ refresh_requested = FALSE
    /\ known_light_ids = LightIds
    /\ entities = [i \in LightIds |-> 1]
    /\ ev = NoEvent

NextLight ==
    \/ TurnOn(AllKwargs)
    \/ TurnOnDone(CommandResponses)
    \/ TurnOff(AllKwargs)
    \/ TurnOffDone(CommandResponses)

SpecLight == InitLight /\ [][NextLight]_vars

\* ------------------------------------------------------------------------
\* SpecView: the functions of a record, an entity and the client that only
\* compute a value, each applied once to an input drawn by the initial state
\* ------------------------------------------------------------------------
\* an input waiting for the function fn, and the value fn gave for it
Input(fn, arg) == [op |-> "in", fn |-> fn, arg |-> arg]
Output(fn, arg, out) == [op |-> "out", fn |-> fn, arg |-> arg, out |-> out]

\* the operation fn of the client, given arg, has sent n requests and waits
\* for the network's reply
Pending(fn, arg, n) == [op |-> "sent", fn |-> fn, arg |-> arg, attempts |-> n]

\* the optional keys of a vendor light object
OptionalKeys == {"uuid", "connected", "power", "brightness", "color", "group",
                 "location", "product", "last_seen", "seconds_since_seen"}

\* the dicts found under "product"
FullCapabilities ==
    [has_color |-> TRUE, has_variable_color_temp |-> TRUE,
     min_kelvin |-> 1500, max_kelvin |-> 6500]
Products ==
    {EmptyDict, [name |-> "bulb"], [capabilities |-> EmptyDict],
     [capabilities |-> FullCapabilities]}

\* a value for each optional key, none of them the default of from_dict
SampleValue(k) ==
    CASE k = "uuid" -> 77
      [] k = "connected" -> TRUE
      [] k = "power" -> "on"
      [] k = "brightness" -> Frac(4, 5)
      [] k = "color" -> [hue |-> 120, saturation |-> Frac(1, 1), kelvin |-> 4000]
      [] k = "group" -> [id |-> "g1", name |-> "Room"]
      [] k = "location" -> [id |-> "loc1", name |-> "Home"]
      [] k = "product" -> [capabilities |-> FullCapabilities]
      [] k = "last_seen" -> "2024-01-01T00:00:00Z"
      [] k = "seconds_since_seen" -> 5

\* the vendor object of light i holding the keys ks
VendorObject(i, ks, product) ==
    [k \in ks |->
        IF k \in {"id", "label"} THEN i
        ELSE IF k = "product" THEN product
        ELSE SampleValue(k)]

\* objects with every subset of the optional keys, objects with every kind
\* of product, and objects without a mandatory key
VendorObjects ==
    {VendorObject(1, {"id", "label"} \cup ks, SampleValue("product")) :
        ks \in SUBSET OptionalKeys}
    \cup {VendorObject(1, {"id", "label", "product"} \cup ks, pr) :
            ks \in {{}, OptionalKeys}, pr \in Products}
    \cup {VendorObject(1, mand \cup ks, SampleValue("product")) :
            mand \in {{}, {"id"}, {"label"}}, ks \in {{}, OptionalKeys}}

\* the capability properties of a record
Capabilities(light) ==
    [supports_color |-> supports_color(light),
     supports_temperature |-> supports_temperature(light),
     min_kelvin |-> min_kelvin(light),
     max_kelvin |-> max_kelvin(light)]

\* ------------------------------------------------------------------------
\* light.py: the state properties of LifxCloudLight
\* ------------------------------------------------------------------------
\* self._light is None: coordinator.data holds no record for the entity's id
NoLight == [none |-> TRUE]
\* a property returning None instead of an int
NoInt == -1

\* LifxCloudLight._light of the entity of light i: coordinator.data.get(i)
EntityLight(i) == IF i \in DOMAIN data THEN data[i] ELSE NoLight

\* CoordinatorEntity.available, the super().available of the entity
CoordinatorEntityAvailable == last_update_success

\* LifxCloudLight.available without the connected flag
available_IgnoreConnected(i) ==
    /\ CoordinatorEntityAvailable
    /\ EntityLight(i) # NoLight

\* LifxCloudLight.available of the entity of light i
available(i) ==
    /\ CoordinatorEntityAvailable
    /\ EntityLight(i) # NoLight
    /\ EntityLight(i).connected

\* LifxCloudLight.brightness with the product rounded half up
brightness_Rounded(light) ==
    IF light = NoLight THEN NoInt
    ELSE (2 * light.brightness.num * 255 + light.brightness.den)
            \div (2 * light.brightness.den)

\* LifxCloudLight.brightness: int(brightness * 255) of a brightness >= 0.
\* The vendor value is a fraction num/den here and a double in the code;
\* the integer below is the one the double expression gives for every
\* fraction in BrightnessValues, b/255 for b in 0..255 among them.
brightness(light) ==
    IF light = NoLight THEN NoInt
    ELSE (light.brightness.num * 255) \div light.brightness.den

\* color_mode without the saturation test
color_mode_IgnoreSaturation(light) ==
    IF light = NoLight THEN "None"
    ELSE IF supports_color(light) THEN "hs"
    ELSE IF supports_temperature(light) THEN "color_temp"
    ELSE "brightness"

\* LifxCloudLight.color_mode
color_mode(light) ==
    IF light = NoLight THEN "None"
    ELSE IF supports_color(light) /\ saturation(light).num > 0 THEN "hs"
    ELSE IF supports_temperature(light) THEN "color_temp"
    ELSE "brightness"

\* LifxCloudLight.supported_color_modes
supported_color_modes(light) ==
    IF light = NoLight THEN {"brightness"}
    ELSE LET modes == (IF supports_color(light) THEN {"hs"} ELSE {})
                      \cup (IF supports_temperature(light) THEN {"color_temp"} ELSE {})
         IN IF modes = {} THEN {"brightness"} ELSE modes

\* the properties the host reads when it writes the entity's state
EntityState(light) ==
    [brightness |-> brightness(light),
     color_mode |-> color_mode(light),
     supported_color_modes |-> supported_color_modes(light)]

\* records with every combination of has_color, has_variable_color_temp and
\* saturation, each key also absent
CapabilityDicts ==
    {[k \in ks |-> IF k = "has_color" THEN hc ELSE ht] :
        ks \in SUBSET {"has_color", "has_variable_color_temp"},
        hc \in BOOLEAN, ht \in BOOLEAN}
ColorDicts ==
    {EmptyDict} \cup {[saturation |-> Frac(n, 2)] : n \in 0..2}
ColorLights ==
    {from_dict([id |-> 1, label |-> 1, color |-> c,
                product |-> [capabilities |-> caps]]) :
        c \in ColorDicts, caps \in CapabilityDicts}

\* records with the vendor brightnesses n/d of [0, 1]
BrightnessValues ==
    {Frac(q[1], q[2]) :
        q \in {p \in (0..255) \X {1, 2, 4, 5, 10, 20, 100, 255} : p[1] <= p[2]}}
EntityLights ==
    {NoLight} \cup ColorLights
    \cup {from_dict([id |-> 1, label |-> 1, brightness |-> b]) : b \in BrightnessValues}

\* the host writes the state of an entity whose record is arg
ApplyEntityState ==
    /\ view.op = "in"
    /\ view.fn = "entity_state"
    /\ view' = Output("entity_state", view.arg, EntityState(view.arg))
    /\ UNCHANGED <<clientVars, res, entryVars, config_entries, inflight>>

\* ------------------------------------------------------------------------
\* api.py: the request body of set_state
\* ------------------------------------------------------------------------
\* an argument that is None, and one that holds the value v
PyNone == [none |-> TRUE]
Some(v) == [v |-> v]

\* the body with the optional arguments tested for truth instead of None
set_state_body_Truthy(a) ==
    LET optional == {k \in {"power", "color", "brightness", "infrared"} :
                        /\ a[k] # PyNone
                        /\ a[k] # (IF k \in {"power", "color"}
                                   THEN Some("") ELSE Some(Frac(0, 1)))}
        keys == {"duration"} \cup optional \cup (IF a.fast THEN {"fast"} ELSE {})
    IN [k \in keys |->
           IF k = "duration" THEN a.duration
           ELSE IF k = "fast" THEN TRUE
           ELSE a[k].v]

\* the dict set_state passes to _request as the JSON body
set_state_body(a) ==
    LET optional == {k \in {"power", "color", "brightness", "infrared"} :
                        a[k] # PyNone}
        keys == {"duration"} \cup optional \cup (IF a.fast THEN {"fast"} ELSE {})
    IN [k \in keys |->
           IF k = "duration" THEN a.duration
           ELSE IF k = "fast" THEN TRUE
           ELSE a[k].v]

\* arguments of set_state: each optional one None, a value, or a value that
\* is not None but false in a truth test
SetStateArgs ==
    [power : {PyNone, Some("on"), Some("")},
     color : {PyNone, Some("kelvin:3500"), Some("")},
     brightness : {PyNone, Some(Frac(1, 2)), Some(Frac(0, 1))},
     duration : {Frac(1, 1), Frac(0, 1)},
     infrared : {PyNone, Some(Frac(1, 1)), Some(Frac(0, 1))},
     fast : BOOLEAN]

\* ------------------------------------------------------------------------
\* api.py: one operation of a client from its call to its end
\* ------------------------------------------------------------------------
\* what the network may answer to a request
NetReplies ==
    {Timeout, TransportError, Response(200, JsonArray(<<>>)),
     Response(401, JsonObject), Response(500, JsonObject)}

\* The operation fn up to the await on the network in _request: the session
\* is obtained and the one session.request of _request is made, with body
\* as its JSON body.
ViewSend(fn, body) ==
    /\ view.op = "in"
    /\ view.fn = fn
    /\ BagCardinality(inflight) < MaxInFlight
    /\ get_session
    /\ inflight' = inflight (+) SetToBag({InFlight(fn, 0, body)})
    /\ view' = Pending(fn, view.arg, 1)
    /\ UNCHANGED <<sessions, supplied, res, entryVars, config_entries>>

\* ViewReply of a client that sends its request again after a timeout
ViewReply_RetryOnTimeout(fn, reply, result) ==
    \E c \in BagToSet(inflight) :
        /\ view.op = "sent"
        /\ view.fn = fn
        /\ c.op = fn
        /\ IF reply.net = "timeout" /\ view.attempts < 2
           THEN /\ get_session
                /\ view' = Pending(fn, view.arg, view.attempts + 1)
                /\ UNCHANGED <<inflight, sessions, supplied, res, entryVars,
                               config_entries>>
           ELSE /\ inflight' = inflight (-) SetToBag({c})
                /\ res' = Res(fn, reply, result, FALSE)
                /\ view' = Output(fn, view.arg,
                                  [sent |-> c.kw, reply |-> reply, result |-> result,
                                   attempts |-> view.attempts])
                /\ UNCHANGED <<clientVars, entryVars, config_entries>>

\* The network answers the request of the waiting operation fn with reply:
\* _request returns or raises, in no loop, and the operation ends with
\* result.
ViewReply(fn, reply, result) ==
    \E c \in BagToSet(inflight) :
        /\ view.op = "sent"
        /\ view.fn = fn
        /\ c.op = fn
        /\ inflight' = inflight (-) SetToBag({c})
        /\ res' = Res(fn, reply, result, FALSE)
        /\ view' = Output(fn, view.arg,
                          [sent |-> c.kw, reply |-> reply, result |-> result,
                           attempts |-> view.attempts])
        /\ UNCHANGED <<clientVars, entryVars, config_entries>>

\* set_state(**arg): the body is built and _request called with it
ApplySetStateBody ==
    /\ view.fn = "set_state"
    /\ ViewSend("set_state", set_state_body(view.arg))

ApplySetStateBodyDone ==
    \E reply \in NetReplies : ViewReply("set_state", reply, request(reply))

\* _request("GET", "/lights/all")
ApplyRequest == ViewSend("request", <<>>)

ApplyRequestDone ==
    \E reply \in NetReplies : ViewReply("request", reply, request(reply))

\* list_lights()
ApplyListLights == ViewSend("list_lights", <<>>)

ApplyListLightsDone ==
    \E reply \in NetReplies : ViewReply("list_lights", reply, list_lights(reply))

\* validate_token()
ApplyValidateToken == ViewSend("validate_token", <<>>)

ApplyValidateTokenDone ==
    \E reply \in NetReplies :
        ViewReply("validate_token", reply, validate_token(reply))

\* LifxLight.from_dict(arg), then the capability properties of the record
ApplyFromDict ==
    /\ view.op = "in"
    /\ view.fn = "from_dict"
    /\ LET r == from_dict_outcome(view.arg)
       IN view' = Output("from_dict", view.arg,
                         [result |-> r,
                          caps |-> IF r.t = "return"
                                   THEN Capabilities(r.value) ELSE EmptyDict])
    /\ UNCHANGED <<clientVars, res, entryVars, config_entries, inflight>>

ViewInputs ==
    {Input("from_dict", d) : d \in VendorObjects}
    \cup {Input("entity_state", l) : l \in EntityLights}
    \cup {Input("turn_on", [brightness |-> b]) : b \in 0..255}
    \cup {Input("set_state", a) : a \in SetStateArgs}
    \cup {Input(fn, <<>>) : fn \in {"request", "list_lights", "validate_token"}}

\* An input and the objects it is given to: a turn-on goes to the entities
\* of a loaded entry whose coordinator holds a record for every light, the
\* other inputs to a new client or to no object at all.
InitView ==
    /\ view \in ViewInputs
    /\ config_entries = {}
    /\ inflight = NoCall
    /\ res = IdleRes
    /\ IF view.fn = "turn_on"
       THEN /\ supplied = FALSE
            /\ session = 1
            /\ owned_session = TRUE
            /\ sessions = NewSessions
            /\ created = 1
            /\ entry = "loaded"
            /\ hass_data = TRUE
            /\ platform = TRUE
            /\ data = [i \in LightIds |-> from_dict(LightDict(i, "on", TRUE))]
            /\ last_update_success = TRUE
            /\ refresh_requested = FALSE
            /\ known_light_ids = LightIds
            /\ entities = [i \in LightIds |-> 1]
            /\ ev = NoEvent
       ELSE /\ ApiInit(FALSE)
            /\ EntryInit

NextView ==
    \/ ApplyFromDict
    \/ ApplyEntityState
    \/ (view.fn = "turn_on" /\ TurnOn({view.arg}))
    \/ TurnOnDone(SomeCommandResponses)
    \/ ApplySetStateBody
    \/ ApplySetStateBodyDone
    \/ ApplyRequest
    \/ ApplyRequestDone
    \/ ApplyListLights
    \/ ApplyListLightsDone
    \/ ApplyValidateToken
    \/ ApplyValidateTokenDone

SpecView == InitView /\ [][NextView]_vars

\* ------------------------------------------------------------------------
\* SpecFlow: config_flow.py, the user step of LifxCloudConfigFlow
\* ------------------------------------------------------------------------
\* access tokens, as character sequences: 17 characters of which the first
\* 16 are a and the last is b, and a token shorter than 16 characters
Tokens ==
    {[i \in 1..17 |-> IF i <= 16 THEN a ELSE b] : a \in 1..2, b \in 1..2}
    \cup {<<3>>}

\* token[:16]
Prefix16(token) ==
    SubSeq(token, 1, IF Len(token) < 16 THEN Len(token) ELSE 16)

\* light objects with and without a location id
FlowDicts ==
    {[id |-> 1, label |-> 1, location |-> [id |-> loc]] : loc \in {<<7>>, <<8>>}}
    \cup {[id |-> 1, label |-> 1, location |-> [name |-> "Home"]],
          SparseLightDict(1), NoLabelLightDict(1)}

\* replies to the flow's GET
FlowResponses ==
    {Response(200, JsonArray(<<d>>)) : d \in FlowDicts}
    \cup {Response(200, JsonArray(<<>>)), Response(200, JsonObject),
          Response(202, NoBody),
          Response(401, JsonObject), Response(403, JsonObject),
          Response(500, JsonObject), Timeout, TransportError}

\* what the step returns
Form(errors) ==
    [type |-> "form", step_id |-> "user", errors |-> errors, data |-> EmptyDict]
CreateEntry(token) ==
    [type |-> "create_entry", step_id |-> "user", errors |-> EmptyDict,
     data |-> [access_token |-> token]]

\* the unique id the step derives from the lights and the token
UniqueId(lights, token) ==
    IF lights # <<>>
    THEN Get(lights[1].location, "id", Prefix16(token))
    ELSE Prefix16(token)

\* _abort_if_unique_id_configured raises AbortFlow, an Exception
AbortIfUniqueIdConfigured(uid) == uid \in config_entries

\* FlowError with the base class of the client's errors caught first
FlowError_BaseFirst(exc) ==
    IF IsLifxCloudAPIError(exc) THEN "cannot_connect"
    ELSE "unknown"

\* errors["base"] chosen by the except clauses, in their order
FlowError(exc) ==
    IF exc = LifxCloudAuthError THEN "invalid_auth"
    ELSE IF exc = LifxCloudConnectionError THEN "cannot_connect"
    ELSE "unknown"

\* the try block of async_step_user: what it returns or raises
FlowTry(token, resp) ==
    LET listed == list_lights(resp)
    IN IF listed.t = "raise" THEN listed
       ELSE IF AbortIfUniqueIdConfigured(UniqueId(listed.value.items, token))
            THEN Raise("AbortFlow", "already_configured", 0, NoBody)
       ELSE Return(CreateEntry(token), FALSE)

\* the record of a step: the input, what list_lights gave, the unique ids
\* configured before the step, and the step's result
FlowRecord(token, resp, listed, before, result) ==
    Output("async_step_user", [token |-> token, resp |-> resp],
           [listed |-> listed, before |-> before, result |-> result])

\* async_step_user(user_input) up to the await on the network: without
\* input (user_input is None, the empty sequence here) the form is shown at
\* once; with a token the step makes a client of
\* its own, whose list_lights creates a session and sends its request. The
\* waiting call holds that session and the token.
FlowStepUser ==
    \/ /\ view' = FlowRecord(<<>>, NoResponse, Return(NoBody, FALSE),
                             config_entries, Form(EmptyDict))
       /\ UNCHANGED <<clientVars, res, entryVars, config_entries, inflight>>
    \/ \E token \in Tokens :
          /\ BagCardinality(inflight) < MaxInFlight
          /\ get_session_of(NoSession, TRUE)
          /\ inflight' = inflight
                            (+) SetToBag({InFlight("async_step_user", session', token)})
          /\ UNCHANGED <<sessions, supplied, res, entryVars, view, config_entries>>

\* The network answers the list_lights of a waiting step, which runs to its
\* end: the try block, the except clauses, and close() of the step's
\* client, once after list_lights returned and once more in the finally
\* clause; the second call finds the session closed. The client the model
\* shows afterwards is that of this step.
FlowStepUserDone ==
    \E c \in BagToSet(inflight), resp \in FlowResponses :
        LET token == c.kw
            r == FlowTry(token, resp)
        IN /\ c.op = "async_step_user"
           /\ session' = c.id
           /\ owned_session' = TRUE
           /\ sessions' = IF ~sessions[c.id].closed
                          THEN [sessions EXCEPT ![c.id] =
                                   [closed |-> TRUE, closes |-> @.closes + 1]]
                          ELSE sessions
           /\ config_entries' =
                 IF r.t = "return"
                 THEN config_entries
                         \cup {UniqueId(list_lights(resp).value.items, token)}
                 ELSE config_entries
           /\ view' = FlowRecord(token, resp, list_lights(resp), config_entries,
                                 IF r.t = "return" THEN r.value
                                 ELSE Form([base |-> FlowError(r.exc)]))
           /\ inflight' = inflight (-) SetToBag({c})
           /\ UNCHANGED <<supplied, created, res, entryVars>>

SpecFlow == Init /\ [][FlowStepUser \/ FlowStepUserDone]_vars

\* ------------------------------------------------------------------------
\* Properties of the client
\* ------------------------------------------------------------------------
\* C1: for every status handed to _request the outcome is the one of the
\* status table: 401 and 403 raise the authentication error with their
\* messages, 207 returns the parsed body, any other status >= 400 raises the
\* generic error with the status and the response text, 202 returns nothing
\* without parsing, and every other status returns the parsed body.
C1_StatusTable ==
    (res.op = "request" /\ res.resp.net = "response") =>
        LET st == res.resp.status
            body == res.resp.body
            out == res.out
        IN /\ st = 401 =>
                out = Raise(LifxCloudAuthError, "Invalid access token", 0, NoBody)
           /\ st = 403 =>
                out = Raise(LifxCloudAuthError, "Access forbidden", 0, NoBody)
           /\ st = 207 => out = Return(body, TRUE)
           /\ (st >= 400 /\ st \notin {401, 403}) =>
                out = Raise(LifxCloudAPIError, "API error", st, body)
           /\ st = 202 => (out.t = "return" /\ out.value = NoBody /\ ~out.parsed)
           /\ (st < 400 /\ st \notin {202, 207}) => out = Return(body, TRUE)

C1_Witness ==
    /\ res.op = "request"
    /\ res.resp.status = 403
    /\ res.out.exc = LifxCloudAuthError

\* C5: a client constructed with a supplied session never calls close() on
\* that session, whatever requests, close() calls and closures by the
\* session's owner happen.
C5_SuppliedSessionNotClosedByClient ==
    supplied => sessions[ExternalSession].closes = 0

\* close() was called on a client whose current session is the open
\* supplied one
C5_Witness ==
    /\ supplied
    /\ res.op = "close"
    /\ session = ExternalSession
    /\ ~sessions[ExternalSession].closed

\* C6: every session the client created is closed once close() has returned
\* and no operation was begun after it, and the client calls close() on each
\* created session at most once.
C6_OwnedSessionClosedOnce ==
    /\ (res.op = "close" /\ inflight = NoCall) =>
          \A k \in 1..created : sessions[k].closed
    /\ \A k \in 1..created : sessions[k].closes <= 1

\* a repeated close(): it found the created session already closed
C6_Witness ==
    /\ res.op = "close"
    /\ inflight = NoCall
    /\ ~res.didClose
    /\ created >= 2
    /\ \A k \in 1..created : sessions[k].closes = 1

\* C8 as stated: validate_token returns false exactly on an authentication
\* error, propagates a connection or generic API error, and returns true in
\* every other case.
C8_Original ==
    res.op = "validate_token" =>
        LET l == list_lights(res.resp)
            authErr == l.t = "raise" /\ l.exc = LifxCloudAuthError
            otherErr == l.t = "raise"
                          /\ l.exc \in {LifxCloudConnectionError, LifxCloudAPIError}
        IN /\ (res.out.t = "return" /\ res.out.value.type = "false") <=> authErr
           /\ otherErr => res.out = l
           /\ (~authErr /\ ~otherErr) =>
                (res.out.t = "return" /\ res.out.value.type = "true")

\* C8 amended: validate_token returns false exactly when list_lights raises
\* an authentication error, returns true exactly when list_lights returns,
\* and lets every other error list_lights raises propagate unchanged.
C8_ValidateToken ==
    res.op = "validate_token" =>
        LET l == list_lights(res.resp)
            authErr == l.t = "raise" /\ l.exc = LifxCloudAuthError
        IN /\ (res.out.t = "return" /\ res.out.value.type = "false") <=> authErr
           /\ (res.out.t = "return" /\ res.out.value.type = "true") <=> l.t = "return"
           /\ (l.t = "raise" /\ ~authErr) => res.out = l

\* validate_token ran into a body-less 202 reply
C8_Witness ==
    /\ res.op = "validate_token"
    /\ res.resp.status = 202
    /\ res.out.t = "raise"
    /\ res.out.exc = "TypeError"


\* ------------------------------------------------------------------------
\* Properties of the coordinator and of the entry
\* ------------------------------------------------------------------------
RefreshHandlers == {"timer_refresh", "requested_refresh"}

\* list_lights raised one of the three error kinds of api.py
ListLightsFailed(resp) ==
    /\ list_lights(resp).t = "raise"
    /\ list_lights(resp).exc \in
          {LifxCloudAuthError, LifxCloudConnectionError, LifxCloudAPIError}

\* C2: a refresh in which list_lights raises an authentication, connection
\* or generic API error leaves the coordinator's map as it was, leaves the
\* coordinator stale, notifies the listeners, and surfaces as UpdateFailed
\* and not as the original error.
C2_FailedRefreshKeepsMap ==
    [][(ev'.h \in RefreshHandlers /\ ListLightsFailed(ev'.resp)) =>
          /\ data' = data
          /\ ~last_update_success'
          /\ ev'.notified
          /\ ev'.out.t = "raise"
          /\ ev'.out.exc = UpdateFailed]_vars

\* a timer refresh failed on an authentication error while lights were known
C2_Witness ==
    /\ ev.h = "timer_refresh"
    /\ ev.resp.status = 401
    /\ ev.out.exc = UpdateFailed
    /\ DOMAIN data # {}
    /\ ~last_update_success

\* C3: after a successful refresh the map holds exactly the lights of that
\* response, each under its id with the record built from it, and no id of
\* the previous map that is missing from the response.
C3_MapIsLatestResponse ==
    (ev.h \in RefreshHandlers \cup {"setup_refresh"} /\ ev.out.t = "return") =>
        LET items == ev.resp.body.items
            ids == {items[k]["id"] : k \in 1..Len(items)}
        IN /\ DOMAIN data = ids
           /\ \A k \in 1..Len(items) : data[items[k]["id"]] = from_dict(items[k])
           /\ \A i \in ev.beforeIds : i \notin ids => i \notin DOMAIN data

\* a successful refresh dropped a light and kept another
C3_Witness ==
    /\ ev.h = "timer_refresh"
    /\ ev.out.t = "return"
    /\ ev.beforeIds \ DOMAIN data # {}
    /\ DOMAIN data # {}

\* C7: the coordinator is stored and the platform set up only once the first
\* refresh has succeeded; when the first refresh fails, setup fails with
\* nothing stored and no platform set up.
C7_SetupAfterFirstRefresh ==
    /\ (hass_data \/ platform) => entry \in {"refreshed", "loaded"}
    /\ entry = "setting_up" =>
          /\ BagIn(InFlight("setup_refresh", 0, <<>>), inflight)
          /\ ~hass_data
          /\ ~platform
    /\ (ev.h = "setup_refresh" /\ ev.out.t = "raise") =>
          (entry = "setup_failed" /\ ~hass_data /\ ~platform)
    /\ (ev.h = "setup_refresh" /\ ev.out.t = "return") => (~hass_data /\ ~platform)

\* a setup failed in its first refresh after an earlier load and unload
C7_Witness ==
    /\ ev.h = "setup_refresh"
    /\ ev.out.t = "raise"
    /\ created >= 2
    /\ ~hass_data

\* ------------------------------------------------------------------------
\* Properties of the entity commands
\* ------------------------------------------------------------------------
CommandHandlers == {"turn_on", "turn_off"}

\* C9 as stated: after every command that reaches the client (set_state or
\* an effect call) a refresh is requested, after the client call returned,
\* and none is requested when the client call raised.
C9_Original ==
    (ev.h \in CommandHandlers /\ ev.calls # <<>>) =>
        IF ev.out.t = "return"
        THEN /\ Len(ev.calls) = 2
             /\ ev.calls[1].fn \in ClientCalls
             /\ ev.calls[2] = RequestRefresh
        ELSE RequestRefresh \notin Range(ev.calls)

\* C9 amended: after the set_state call of turn-on or turn-off has returned
\* the adapter requests a refresh, as the call that follows it; when
\* set_state raises no refresh is requested; a breathe or pulse call is not
\* followed by a refresh request.
C9_RefreshAfterSetState ==
    (ev.h \in CommandHandlers /\ ev.calls # <<>>) =>
        /\ ev.calls[1].fn \in ClientCalls
        /\ (ev.calls[1].fn = "set_state" /\ ev.out.t = "return") =>
              /\ Len(ev.calls) = 2
              /\ ev.calls[2] = RequestRefresh
              /\ refresh_requested
        /\ (ev.calls[1].fn = "set_state" /\ ev.out.t = "raise") => Len(ev.calls) = 1
        /\ ev.calls[1].fn # "set_state" => Len(ev.calls) = 1

\* a turn-on whose set_state raised
C9_Witness ==
    /\ ev.h = "turn_on"
    /\ Len(ev.calls) = 1
    /\ ev.calls[1].fn = "set_state"
    /\ ev.out.t = "raise"

\* C10: a turn-on with effect "breathe" or "pulse" for a light whose record
\* exists makes exactly one call, to the matching effect endpoint, with
\* selector id:<light-id>, color white and the fixed period and cycles, and
\* no set_state call, whatever the other arguments.
C10_EffectOnly ==
    (/\ ev.h = "turn_on"
     /\ "effect" \in DOMAIN ev.kw
     /\ ev.kw["effect"] \in {"breathe", "pulse"}
     /\ ev.id \in DOMAIN data) =>
        /\ Len(ev.calls) = 1
        /\ ev.calls[1].fn =
              (IF ev.kw["effect"] = "breathe" THEN "breathe_effect" ELSE "pulse_effect")
        /\ ev.calls[1].selector = [fmt |-> "id:{}", id |-> ev.id]
        /\ ev.calls[1].color = White
        /\ ev.calls[1].period =
              (IF ev.kw["effect"] = "breathe" THEN Frac(2, 1) ELSE Frac(1, 1))
        /\ ev.calls[1].cycles = Frac(3, 1)
        /\ \A k \in 1..Len(ev.calls) : ev.calls[k].fn # "set_state"

\* a pulse turn-on that also carried color, kelvin, brightness and transition
C10_Witness ==
    /\ ev.h = "turn_on"
    /\ DOMAIN ev.kw = KwKeys
    /\ ev.kw["effect"] = "pulse"
    /\ Len(ev.calls) = 1
    /\ ev.calls[1].fn = "pulse_effect"

\* C20: the light platform holds at most one entity per light id, also for a
\* light that left the map in one refresh and came back in a later one, and
\* after a successful update of a loaded entry every id of the map has an
\* entity.
C20_OneEntityPerLight ==
    /\ \A i \in LightIds : entities[i] <= 1
    /\ (entry = "loaded" /\ ev.h \in RefreshHandlers \cup {"setup_store"}
          /\ ev.out.t = "return") =>
          \A i \in DOMAIN data : entities[i] = 1

\* a successful refresh brought back a light that had an entity already and
\* was missing from the map before the refresh
C20_Witness ==
    /\ ev.h \in RefreshHandlers
    /\ ev.out.t = "return"
    /\ \E i \in DOMAIN data :
          /\ i \in ev.knownBefore
          /\ i \notin ev.beforeIds
          /\ entities[i] = 1

\* C17: a turn-on that takes no effect branch calls set_state with
\* power "on" and with the color "hue:<h> saturation:<s/100>" whenever an HS
\* color is given (a kelvin given with it is ignored), "kelvin:<k>" when only
\* kelvin is given, and no color when neither is given.
C17_ColorDescriptor ==
    (/\ ev.h = "turn_on"
     /\ ev.id \in DOMAIN data
     /\ ~("effect" \in DOMAIN ev.kw /\ ev.kw["effect"] \in {"breathe", "pulse"})) =>
        /\ ev.calls # <<>>
        /\ ev.calls[1].fn = "set_state"
        /\ ev.calls[1].power = "on"
        /\ "hs_color" \in DOMAIN ev.kw =>
              ev.calls[1].color =
                 [fmt |-> "hue:{} saturation:{}", a |-> ev.kw["hs_color"][1],
                  b |-> [num |-> ev.kw["hs_color"][2], den |-> 100]]
        /\ ("hs_color" \notin DOMAIN ev.kw /\ "color_temp_kelvin" \in DOMAIN ev.kw) =>
              ev.calls[1].color =
                 [fmt |-> "kelvin:{}", a |-> ev.kw["color_temp_kelvin"], b |-> NoNumber]
        /\ ("hs_color" \notin DOMAIN ev.kw /\ "color_temp_kelvin" \notin DOMAIN ev.kw) =>
              ev.calls[1].color.fmt = "None"

\* a turn-on given both an HS color and a kelvin value
C17_Witness ==
    /\ ev.h = "turn_on"
    /\ ev.id \in DOMAIN data
    /\ {"hs_color", "color_temp_kelvin"} \subseteq DOMAIN ev.kw
    /\ "effect" \notin DOMAIN ev.kw
    /\ ev.calls # <<>>
    /\ ev.calls[1].color.fmt = "hue:{} saturation:{}"

\* C13: from_dict returns a record for every object that holds "id" and
\* "label", whichever optional keys are missing: a key that is present gives
\* its value, a missing one gives its default (uuid the id, connected false,
\* power "off", brightness 0, color, group, location and product empty,
\* last_seen "", seconds_since_seen 0); and a record without capabilities has
\* supports_color false, supports_temperature false, min_kelvin 2500 and
\* max_kelvin 9000.
C13_FromDictDefaults ==
    (view.op = "out" /\ view.fn = "from_dict"
        /\ {"id", "label"} \subseteq DOMAIN view.arg) =>
        LET d == view.arg
            r == view.out.result
            l == r.value
            V(k, default) == IF k \in DOMAIN d THEN d[k] ELSE default
        IN /\ r.t = "return"
           /\ l.id = d["id"]
           /\ l.label = d["label"]
           /\ l.uuid = V("uuid", d["id"])
           /\ l.connected = V("connected", FALSE)
           /\ l.power = V("power", "off")
           /\ l.brightness = V("brightness", [num |-> 0, den |-> 1])
           /\ l.color = V("color", <<>>)
           /\ l.group = V("group", <<>>)
           /\ l.location = V("location", <<>>)
           /\ l.product = V("product", <<>>)
           /\ l.last_seen = V("last_seen", "")
           /\ l.seconds_since_seen = V("seconds_since_seen", 0)
           /\ ("product" \notin DOMAIN d
                 \/ "capabilities" \notin DOMAIN d["product"]
                 \/ DOMAIN d["product"]["capabilities"] = {}) =>
                 view.out.caps = [supports_color |-> FALSE,
                                  supports_temperature |-> FALSE,
                                  min_kelvin |-> 2500, max_kelvin |-> 9000]

\* from_dict applied to an object holding nothing but "id" and "label"
C13_Witness ==
    /\ view.op = "out"
    /\ view.fn = "from_dict"
    /\ DOMAIN view.arg = {"id", "label"}
    /\ view.out.result.t = "return"
    /\ view.out.result.value.power = "off"
    /\ view.out.caps.max_kelvin = 9000

\* C18: for a record that exists, color_mode is "hs" exactly when the light
\* supports color and its saturation is > 0; otherwise it is "color_temp"
\* exactly when the light supports variable color temperature; otherwise it
\* is "brightness".
C18_ColorMode ==
    (view.op = "out" /\ view.fn = "entity_state" /\ "id" \in DOMAIN view.arg) =>
        LET caps == IF "capabilities" \in DOMAIN view.arg.product
                    THEN view.arg.product["capabilities"] ELSE <<>>
            hasColor == "has_color" \in DOMAIN caps /\ caps["has_color"]
            hasTemp == "has_variable_color_temp" \in DOMAIN caps
                          /\ caps["has_variable_color_temp"]
            sat == IF "saturation" \in DOMAIN view.arg.color
                   THEN view.arg.color["saturation"] ELSE [num |-> 0, den |-> 1]
            isHs == hasColor /\ sat.num > 0
        IN /\ (view.out.color_mode = "hs") <=> isHs
           /\ ~isHs => ((view.out.color_mode = "color_temp") <=> hasTemp)
           /\ (~isHs /\ ~hasTemp) => view.out.color_mode = "brightness"

\* a color light at saturation 0 that supports color temperature
C18_Witness ==
    /\ view.op = "out"
    /\ view.fn = "entity_state"
    /\ "id" \in DOMAIN view.arg
    /\ supports_color(view.arg)
    /\ supports_temperature(view.arg)
    /\ saturation(view.arg) = Frac(0, 2)
    /\ view.out.color_mode = "color_temp"

\* C19: for every record, color_mode is a member of supported_color_modes.
C19_ModeIsSupported ==
    (view.op = "out" /\ view.fn = "entity_state" /\ "id" \in DOMAIN view.arg) =>
        view.out.color_mode \in view.out.supported_color_modes

\* C12 as stated: the reported brightness is round(vendor * 255), Python's
\* round to the nearest integer with ties to even, for every vendor
\* brightness in [0, 1]; the brightness sent on turn-on is host/255; and a
\* host value b sent as b/255 and reported back is within 1 of b.
C12_Original ==
    /\ (view.op = "out" /\ view.fn = "entity_state" /\ "id" \in DOMAIN view.arg) =>
          LET p == view.arg.brightness.num * 255
              q == view.arg.brightness.den
              f == p \div q
              r2 == 2 * (p - f * q)
              rounded == IF r2 < q THEN f
                         ELSE IF r2 > q THEN f + 1
                         ELSE IF f % 2 = 0 THEN f ELSE f + 1
          IN /\ view.out.brightness = rounded
             /\ q = 255 =>
                   view.out.brightness - view.arg.brightness.num \in {-1, 0, 1}
    /\ (ev.h = "turn_on" /\ ev.calls # <<>>) =>
          /\ ev.calls[1].fn = "set_state"
          /\ ev.calls[1].brightness = [num |-> ev.kw.brightness, den |-> 255]

\* C12: the reported brightness is int(vendor * 255), the largest integer
\* not above the product, for every vendor brightness in [0, 1]; the
\* brightness sent by a turn-on with host brightness b is b/255; and a
\* vendor brightness of b/255 is reported as a value within 1 of b.
C12_Brightness ==
    /\ (view.op = "out" /\ view.fn = "entity_state" /\ "id" \in DOMAIN view.arg) =>
          LET p == view.arg.brightness.num * 255
              q == view.arg.brightness.den
              k == view.out.brightness
          IN /\ k * q <= p
             /\ p < (k + 1) * q
             /\ q = 255 => k - view.arg.brightness.num \in {-1, 0, 1}
    /\ (ev.h = "turn_on" /\ ev.calls # <<>>) =>
          /\ ev.calls[1].fn = "set_state"
          /\ ev.calls[1].brightness = [num |-> ev.kw.brightness, den |-> 255]

\* vendor brightness 1/2 reported as 127, where round gives 128
C12_Witness ==
    /\ view.op = "out"
    /\ view.fn = "entity_state"
    /\ "id" \in DOMAIN view.arg
    /\ view.arg.brightness = [num |-> 1, den |-> 2]
    /\ view.out.brightness = 127

\* C11: an entity is available if and only if the coordinator's last refresh
\* succeeded, the map holds a record under the entity's light id, and that
\* record's connected flag is true.
C11_Available ==
    \A i \in LightIds :
        entities[i] >= 1 =>
            (available(i) <=>
                /\ last_update_success
                /\ i \in DOMAIN data
                /\ data[i].connected)

\* an entity whose light the latest successful refresh dropped from the map
C11_Witness ==
    /\ ev.h \in RefreshHandlers
    /\ ev.out.t = "return"
    /\ last_update_success
    /\ \E i \in ev.beforeIds :
          /\ entities[i] = 1
          /\ i \notin DOMAIN data
          /\ ~available(i)
    /\ \E j \in DOMAIN data : entities[j] = 1 /\ data[j].connected /\ available(j)

\* C14: the body set_state sends holds "duration" in every call, holds
\* each of "power", "color", "brightness" and "infrared" exactly when that
\* argument is not None, with the argument's value, and holds no other key
\* but "fast", which is there, as true, only when fast was asked for. It is
\* read off the request that waits for the network and off the request the
\* ended call had sent.
C14_SetStateBody ==
    LET BodyOf(a, body) ==
            /\ "duration" \in DOMAIN body
            /\ body["duration"] = a.duration
            /\ \A k \in {"power", "color", "brightness", "infrared"} :
                  /\ (k \in DOMAIN body) <=> (a[k] # [none |-> TRUE])
                  /\ k \in DOMAIN body => body[k] = a[k].v
            /\ DOMAIN body \subseteq
                  {"duration", "power", "color", "brightness", "infrared", "fast"}
            /\ ("fast" \in DOMAIN body) <=> a.fast
            /\ "fast" \in DOMAIN body => body["fast"] = TRUE
    IN /\ \A c \in BagToSet(inflight) :
             c.op = "set_state" => BodyOf(view.arg, c.kw)
       /\ (view.op = "out" /\ view.fn = "set_state") =>
             BodyOf(view.arg, view.out.sent)

\* brightness 0 supplied, power and color left None, fast not asked for:
\* the request waits for the network on the session the call created
C14_Witness ==
    /\ view.op = "sent"
    /\ view.fn = "set_state"
    /\ view.arg.brightness = [v |-> [num |-> 0, den |-> 1]]
    /\ view.arg.power = [none |-> TRUE]
    /\ ~view.arg.fast
    /\ session # NoSession
    /\ \E c \in BagToSet(inflight) :
          c.op = "set_state" /\ DOMAIN c.kw = {"duration", "brightness"}

\* C16: an operation whose request times out or fails at the transport
\* level raises the connection error, not the authentication error and not
\* the generic error, and every operation has sent exactly one request
\* when it ends, whatever the network answered, and no request of it is
\* left waiting.
C16_OneAttempt ==
    (view.op = "out"
        /\ view.fn \in {"request", "list_lights", "validate_token", "set_state"}) =>
        /\ view.out.attempts = 1
        /\ inflight = NoCall
        /\ view.out.reply.net \in {"timeout", "client_error"} =>
              /\ view.out.result.t = "raise"
              /\ view.out.result.exc = "LifxCloudConnectionError"
              /\ view.out.result.exc \notin {"LifxCloudAuthError", "LifxCloudAPIError"}

\* list_lights created a session, sent one request, and ended on a timeout
C16_Witness ==
    /\ view.op = "out"
    /\ view.fn = "list_lights"
    /\ view.out.reply.net = "timeout"
    /\ view.out.result.t = "raise"
    /\ view.out.result.msg = "Request timed out"
    /\ view.out.attempts = 1
    /\ created = 1
    /\ session = 1

\* C15: in the user step an authentication error of list_lights gives the
\* form error invalid_auth, a connection error gives cannot_connect and any
\* other failure, a generic API error among them, gives unknown; in each of
\* these cases the form is shown again and no config entry is created; and
\* an entry is created only when list_lights succeeded.
C15_FlowErrors ==
    (view.op = "out" /\ view.fn = "async_step_user" /\ view.arg.token # <<>>) =>
        LET listed == view.out.listed
            result == view.out.result
            expected == IF listed.exc = "LifxCloudAuthError" THEN "invalid_auth"
                        ELSE IF listed.exc = "LifxCloudConnectionError"
                             THEN "cannot_connect"
                        ELSE "unknown"
        IN /\ listed.t = "raise" =>
                 /\ result.type = "form"
                 /\ result.errors = [base |-> expected]
                 /\ config_entries = view.out.before
           /\ result.type = "create_entry" => listed.t = "return"
           /\ config_entries # view.out.before =>
                 listed.t = "return" /\ result.type = "create_entry"

\* a 500 reply shown as unknown with an entry of an earlier step kept
C15_Witness ==
    /\ view.op = "out"
    /\ view.fn = "async_step_user"
    /\ view.arg.token # <<>>
    /\ view.arg.resp.status = 500
    /\ view.out.listed.exc = "LifxCloudAPIError"
    /\ view.out.result.type = "form"
    /\ view.out.result.errors = [base |-> "unknown"]
    /\ config_entries = view.out.before
    /\ config_entries # {}

\* C21: no session the client created stays open without an owner that will
\* close it: when async_setup_entry has failed because the first refresh
\* failed, every session the client created is closed, and after a
\* successful async_unload_entry the entry's client session is closed.
C21_NoSessionLeftOpen ==
    /\ entry = "setup_failed" =>
          \A s \in 1..created : sessions[s].closed
    /\ ev.h = "unload" =>
          session # NoSession /\ sessions[session].closed

====
